---- MODULE Spec2Model ----
(***************************************************************************)
(* Strided views of numpy/lib/stride_tricks.py: as_strided,                *)
(* sliding_window_view, broadcast_to and broadcast_arrays, over a small    *)
(* heap of element buffers.                                                *)
(*                                                                         *)
(* An array is a record                                                    *)
(*   [id, buf, shape, strides, writeable, type, hook]                      *)
(* id is the identity of the Python object, buf the buffer it reads, shape *)
(* and strides its header (strides in bytes), type its concrete class and  *)
(* hook the id of the array its __array_finalize__ was last called with by *)
(* this module (0: never).                                                 *)
(*                                                                         *)
(* Also the printing options of numpy/core/arrayprint.py (the option dict, *)
(* PrintOptions objects, set_printoptions) and the signature check of      *)
(* numpy/core/overrides.py (verify_matching_signatures).                   *)
(***************************************************************************)
EXTENDS Integers, Sequences, FiniteSets, TLC

VARIABLES
    pc,       \* "idle" | "returned" | "crashed"
    arrays,   \* the caller's arrays, in argument order
    mem,      \* buffer id -> sequence of elements
    call,     \* the call made: operation and arguments
    result,   \* what the call gave: an error or the returned arrays
    writes,   \* element writes made through a result so far
    _printoptions,  \* numpy/core/arrayprint.py: the module's option dict
    managers, \* the PrintOptions objects the caller holds
    pcall,    \* the last call on print options, and the dict before it
    blocks    \* the with blocks entered and not yet left, innermost last

viewvars == <<pc, arrays, mem, call, result, writes>>

printvars == <<_printoptions, managers, pcall, blocks>>

vars ==
    <<pc, arrays, mem, call, result, writes, _printoptions, managers, pcall,
      blocks>>

----------------------------------------------------------------------------
(* Bounds of the model *)

MaxRank == 2
MaxDim == 2
MaxWin == 3
MaxStep == 2
MaxArgs == 3
MaxWrites == 1
MaxManagers == 1
MaxParams == 2
MaxInputs == 65
MaxBlocks == 1

(* Bytes per element of the arrays of the docstring examples (int64). *)
ItemSize == 8

----------------------------------------------------------------------------
(* Sequences of integers *)

RECURSIVE Prod(_)
Prod(s) == IF s = <<>> THEN 1 ELSE Head(s) * Prod(Tail(s))

RECURSIVE Dot(_, _)
Dot(a, b) == IF a = <<>> THEN 0 ELSE Head(a) * Head(b) + Dot(Tail(a), Tail(b))

(* The largest entry, 0 when there is none above 0. *)
MaxOf(s) ==
    CHOOSE m \in {0} \cup {s[i] : i \in 1..Len(s)} :
        \A i \in 1..Len(s) : s[i] <= m

SeqsUpTo(S, n) == UNION {[1..k -> S] : k \in 0..n}

(* All multi-indices of an array of the given shape. *)
Indices(shape) ==
    {idx \in [1..Len(shape) -> 0..MaxOf(shape)] :
        \A i \in 1..Len(shape) : idx[i] < shape[i]}

(* An optional argument: None, or a value. *)
None == [some |-> FALSE, v |-> <<>>]

Some(v) == [some |-> TRUE, v |-> v]

----------------------------------------------------------------------------
(* The arrays the caller holds *)

(* Strides of a freshly allocated C-ordered array; an axis of size 0      *)
(* counts as size 1.                                                       *)
CStrides(shape) ==
    [i \in 1..Len(shape) |->
        ItemSize * Prod([j \in 1..(Len(shape) - i) |->
                            IF shape[i + j] = 0 THEN 1 ELSE shape[i + j]])]

(* Strides of the transpose of a C-ordered array (Fortran order). *)
FStrides(shape) ==
    [i \in 1..Len(shape) |->
        ItemSize * Prod([j \in 1..(i - 1) |->
                            IF shape[j] = 0 THEN 1 ELSE shape[j]])]

(* The element the examples store at a multi-index: 10*i + j for a matrix. *)
RECURSIVE Val(_)
Val(idx) ==
    IF idx = <<>> THEN 0
    ELSE 10 * Val(SubSeq(idx, 1, Len(idx) - 1)) + idx[Len(idx)]

(* The buffer of an array of that shape and layout holding Val. *)
Buffer(shape, strides) ==
    [k \in 1..Prod(shape) |->
        Val(CHOOSE idx \in Indices(shape) : Dot(idx, strides) = (k - 1) * ItemSize)]

(* x[idx], read in heap m. *)
ReadIn(m, x, idx) == m[x.buf][(Dot(idx, x.strides) \div ItemSize) + 1]

Read(x, idx) == ReadIn(mem, x, idx)

(* The C_CONTIGUOUS flag: the strides of an axis of size 1 do not count,  *)
(* and an array without elements is contiguous.                           *)
IsCContiguous(x) ==
    \/ \E i \in 1..Len(x.shape) : x.shape[i] = 0
    \/ \A i \in 1..Len(x.shape) :
          \/ x.shape[i] = 1
          \/ x.strides[i] = ItemSize * Prod(SubSeq(x.shape, i + 1, Len(x.shape)))

(* Identities of the objects a call creates for its k-th argument. *)
ConvId(k) == 10 + k

IfaceId(k) == 20 + k

SubId(k) == 30 + k

CopyId(k) == 40 + k

IterId(k) == 50 + k

----------------------------------------------------------------------------
(* Results of a call *)

NoError == "none"

(* out: the arrays returned; alloc: the buffers the call wrote, each with  *)
(* its number buf and the elements data stored in it.                     *)
Ok(views) == [err |-> NoError, out |-> views, alloc |-> <<>>]

Raise(e) == [err |-> e, out |-> <<>>, alloc |-> <<>>]

----------------------------------------------------------------------------
(* Primitives of the array library the module calls *)

(* np.array(x, copy=False, subok=subok): x itself when it is a base-class *)
(* array or subclasses are allowed, else a new base-class view of x.      *)
np_array(x, subok, newid) ==
    IF x.type = "ndarray" \/ subok THEN x
    ELSE [x EXCEPT !.id = newid, !.type = "ndarray", !.hook = 0]

(* x.copy(): a new C-ordered, writeable array of the same class that owns *)
(* a new buffer, numbered newbuf, holding the elements of x.              *)
CopyData(x) ==
    [k \in 1..Prod(x.shape) |->
        Read(x, CHOOSE idx \in Indices(x.shape) :
                    Dot(idx, CStrides(x.shape)) = (k - 1) * ItemSize)]

copy(x, newid, newbuf) ==
    [id |-> newid, buf |-> newbuf, shape |-> x.shape,
     strides |-> CStrides(x.shape), writeable |-> TRUE, type |-> x.type,
     hook |-> 0, dtype |-> x.dtype]

(* The element types of arrays: 8-byte integers, and a structured type of *)
(* 8 bytes (two 4-byte fields).                                           *)
DTypes == {"int64", "record"}

(* The element type an array made from x.__array_interface__ has: lines   *)
(* 103-104, the route via the interface does not preserve structured      *)
(* types, whose typestr names raw bytes only.                             *)
InterfaceDType(dtype) == IF dtype = "record" THEN "void" ELSE dtype

(* np.asarray(DummyArray(interface, base=x)): a base-class array over the *)
(* data pointer of the interface; an interface without strides (None, as  *)
(* a C-contiguous array reports them) gets the C strides of its shape.    *)
ErrStridesLen == "ValueError: mismatch in length of strides and shape"

FromInterface(x, shape, strides, newid) ==
    LET st == IF strides.some THEN strides.v ELSE CStrides(shape)
    IN  IF Len(st) # Len(shape) THEN Raise(ErrStridesLen)
        ELSE Ok(<<[id |-> newid, buf |-> x.buf, shape |-> shape,
                   strides |-> st, writeable |-> x.writeable,
                   type |-> "ndarray", hook |-> 0,
                   dtype |-> InterfaceDType(x.dtype)]>>)

(* np.nditer((op,), flags, op_flags=[op_flag], itershape, order='C') and  *)
(* its itviews[0]: the operand broadcast to itershape, right-aligned.     *)
ErrIterNdim ==
    "ValueError: input operand has more dimensions than allowed by the axis remapping"

ErrIterBroadcast == "ValueError: operands could not be broadcast together"

ErrIterReduce ==
    "ValueError: output operand requires a reduction, but reduction is not enabled"

ErrIterZeroSize ==
    "ValueError: Iteration of zero-sized operands is not enabled"

(* The strides of itviews[0]: the iterator gives stride 0 to every axis   *)
(* the operand does not have and to every axis on which the operand has   *)
(* size 1, whatever the size of the axis in itershape; the other axes     *)
(* keep the stride of the operand.                                        *)
IterViewStrides(op, itershape) ==
    LET pad == Len(itershape) - Len(op.shape)
    IN  [j \in 1..Len(itershape) |->
            IF j <= pad THEN 0
            ELSE IF op.shape[j - pad] = 1 THEN 0
            ELSE op.strides[j - pad]]

nditer(op, flags, op_flag, itershape, newid) ==
    LET m == Len(op.shape)
        n == Len(itershape)
        pad == n - m
        stretched == \E j \in 1..n :
                        /\ itershape[j] # 1
                        /\ \/ j <= pad
                           \/ op.shape[j - pad] = 1
    IN  IF m > n THEN Raise(ErrIterNdim)
        ELSE IF \E i \in 1..m : /\ op.shape[i] # 1
                                /\ op.shape[i] # itershape[pad + i]
            THEN Raise(ErrIterBroadcast)
        ELSE IF op_flag = "readwrite" /\ stretched /\ "reduce_ok" \notin flags
            THEN Raise(ErrIterReduce)
        ELSE IF Prod(itershape) = 0 /\ "zerosize_ok" \notin flags
            THEN Raise(ErrIterZeroSize)
        ELSE Ok(<<[id |-> newid, buf |-> op.buf, shape |-> itershape,
                   strides |-> IterViewStrides(op, itershape),
                   writeable |-> (op_flag = "readwrite"),
                   type |-> "ndarray", hook |-> 0, dtype |-> op.dtype]>>)

(* np.broadcast of arrays of these shapes, its .shape: all shapes right-aligned; on every axis   *)
(* the sizes other than 1 must agree.                                     *)
ErrShapeMismatch ==
    "ValueError: shape mismatch: objects cannot be broadcast to a single shape"

(* NPY_MAXARGS: the most arguments np.broadcast takes. *)
MaxBroadcastArgs == 32

AxisSizes(shapes, nd, j) ==
    {shapes[a][j - (nd - Len(shapes[a]))] :
        a \in {b \in 1..Len(shapes) : j > nd - Len(shapes[b])}}

np_broadcast(shapes) ==
    LET nd == MaxOf([a \in 1..Len(shapes) |-> Len(shapes[a])])
        sizes(j) == AxisSizes(shapes, nd, j) \ {1}
    IN  IF \E j \in 1..nd : Cardinality(sizes(j)) > 1
        THEN [err |-> ErrShapeMismatch, shape |-> <<>>]
        ELSE [err |-> NoError,
              shape |-> [j \in 1..nd |->
                            IF sizes(j) = {} THEN 1
                            ELSE CHOOSE d \in sizes(j) : TRUE]]

----------------------------------------------------------------------------
(* numpy/lib/stride_tricks.py *)

(* The classes of arrays: the base class ndarray, a subclass that defines *)
(* __array_finalize__ and a subclass that does not (the attribute it      *)
(* inherits from the base class is None).                                 *)
ArrayClasses == {"ndarray", "subclass", "plain"}

(* Line 33: new_array.__array_finalize__ is not None. *)
HasArrayFinalize(type) == type = "subclass"

(* Variant: the hook called without the test of line 33. *)
_maybe_view_as_subclass_unguarded(original_array, new_array, newid) ==
    IF original_array.type # new_array.type
    THEN [new_array EXCEPT !.id = newid,
                           !.type = original_array.type,
                           !.hook = original_array.id]
    ELSE new_array

(* Lines 25-35; hook is the array __array_finalize__ was called with by   *)
(* line 34, 0 when it was not called.                                     *)
_maybe_view_as_subclass(original_array, new_array, newid) ==
    IF original_array.type # new_array.type
    THEN [new_array EXCEPT !.id = newid,
                           !.type = original_array.type,
                           !.hook = IF HasArrayFinalize(original_array.type)
                                    THEN original_array.id ELSE 0]
    ELSE new_array

(* Line 105: array.dtype = x.dtype, an assignment to the new array. *)
SetDType(array, dtype) == [array EXCEPT !.dtype = dtype]

(* The strides entry of x.__array_interface__: None for a C-contiguous x. *)
InterfaceStrides(x) == IF IsCContiguous(x) THEN None ELSE Some(x.strides)

(* Variant: the strides argument ignored. *)
as_strided_xstrides(x0, shape, strides, subok, writeable, k) ==
    LET x == np_array(x0, subok, ConvId(k))
        ishape == IF shape.some THEN shape.v ELSE x.shape
        made == FromInterface(x, ishape, InterfaceStrides(x), IfaceId(k))
    IN  IF made.err # NoError THEN made
        ELSE LET view == _maybe_view_as_subclass(x, SetDType(made.out[1], x.dtype),
                                                    SubId(k))
             IN  Ok(<<[view EXCEPT !.writeable =
                          IF @ /\ ~writeable THEN FALSE ELSE @]>>)

(* Variant: strides that step backwards refused. *)
as_strided_forwards(x0, shape, strides, subok, writeable, k) ==
    LET x == np_array(x0, subok, ConvId(k))
        ishape == IF shape.some THEN shape.v ELSE x.shape
        istrides == IF strides.some THEN strides ELSE InterfaceStrides(x)
        made == FromInterface(x, ishape, istrides, IfaceId(k))
    IN  IF made.err # NoError THEN made
        ELSE IF \E i \in 1..Len(made.out[1].strides) : made.out[1].strides[i] < 0
            THEN Raise(ErrStridesLen)
        ELSE LET view == _maybe_view_as_subclass(x, SetDType(made.out[1], x.dtype),
                                                    SubId(k))
             IN  Ok(<<[view EXCEPT !.writeable =
                          IF @ /\ ~writeable THEN FALSE ELSE @]>>)

(* Variant: the flag cleared on x itself, which is returned. *)
as_strided_inplace(x0, shape, strides, subok, writeable, k) ==
    LET x == np_array(x0, subok, ConvId(k))
        ishape == IF shape.some THEN shape.v ELSE x.shape
        istrides == IF strides.some THEN strides ELSE InterfaceStrides(x)
        made == FromInterface(x, ishape, istrides, x.id)
    IN  IF made.err # NoError THEN made
        ELSE LET view == _maybe_view_as_subclass(x, SetDType(made.out[1], x.dtype),
                                                    SubId(k))
             IN  Ok(<<[view EXCEPT !.writeable =
                          IF @ /\ ~writeable THEN FALSE ELSE @]>>)

(* Variant: the header written from the arguments as they are, their     *)
(* lengths not compared.                                                  *)
as_strided_unchecked(x0, shape, strides, subok, writeable, k) ==
    LET x == np_array(x0, subok, ConvId(k))
        ishape == IF shape.some THEN shape.v ELSE x.shape
        istrides == IF strides.some THEN strides.v ELSE x.strides
        made == [id |-> IfaceId(k), buf |-> x.buf, shape |-> ishape,
                 strides |-> istrides, writeable |-> x.writeable,
                 type |-> "ndarray", hook |-> 0, dtype |-> x.dtype]
        view == _maybe_view_as_subclass(x, made, SubId(k))
    IN  Ok(<<[view EXCEPT !.writeable = IF @ /\ ~writeable THEN FALSE ELSE @]>>)

(* Variant: the flag set to the writeable argument. *)
as_strided_setflag(x0, shape, strides, subok, writeable, k) ==
    LET x == np_array(x0, subok, ConvId(k))
        ishape == IF shape.some THEN shape.v ELSE x.shape
        istrides == IF strides.some THEN strides ELSE InterfaceStrides(x)
        made == FromInterface(x, ishape, istrides, IfaceId(k))
    IN  IF made.err # NoError THEN made
        ELSE LET view == _maybe_view_as_subclass(x, SetDType(made.out[1], x.dtype),
                                                    SubId(k))
             IN  Ok(<<[view EXCEPT !.writeable = writeable]>>)

as_strided(x0, shape, strides, subok, writeable, k) ==
    LET x == np_array(x0, subok, ConvId(k))
        ishape == IF shape.some THEN shape.v ELSE x.shape
        istrides == IF strides.some THEN strides ELSE InterfaceStrides(x)
        made == FromInterface(x, ishape, istrides, IfaceId(k))
    IN  IF made.err # NoError THEN made
        ELSE LET view == _maybe_view_as_subclass(x, SetDType(made.out[1], x.dtype),
                                                    SubId(k))
             IN  Ok(<<[view EXCEPT !.writeable =
                          IF @ /\ ~writeable THEN FALSE ELSE @]>>)

ErrShapeType == "TypeError: 'shape' must be a sequence of integer"

ErrShapeNdim == "ValueError: 'shape' must be one-dimensional sequence of integer"

ErrShapeLen == "ValueError: 'shape' length doesn't match with input array dimensions"

ErrShapeNonPos == "ValueError: 'shape' cannot contain non-positive value"

ErrStepType == "TypeError: 'step' must be a sequence of integer"

ErrStepNdim == "ValueError: 'step' must be one-dimensional sequence of integer"

ErrStepLen == "ValueError: 'step' length doesn't match with input array dimensions"

ErrStepNonPos == "ValueError: 'step' cannot contain non-positive value"

ErrWindow == "ValueError: window shape cannot larger than input array shape"

(* len() of a 0-d array. *)
ErrUnsized == "TypeError: len() of unsized object"

(* np.array(arg, np.int) of a window or step argument                     *)
(*   [kind |-> "seq", v |-> the integers]    a flat sequence              *)
(*   [kind |-> "scalar", v |-> <<n>>]        a bare integer n             *)
(*   [kind |-> "nested", v |-> <<>>]         a sequence of sequences      *)
(*   [kind |-> "bad", v |-> <<>>]            not convertible to integers  *)
(*   [kind |-> "float", v |-> the halves]    a flat sequence of numbers   *)
(*                                           v[i] / 2, none below 0       *)
(* gives the number of axes of the converted array, -1 when it raises.    *)
IntArrayNdim(arg) ==
    CASE arg.kind = "seq" -> 1
      [] arg.kind = "float" -> 1
      [] arg.kind = "scalar" -> 0
      [] arg.kind = "nested" -> 2
      [] OTHER -> -1

(* Lines 215, 230: the entries of np.array(arg, np.int) for a flat        *)
(* sequence; the cast to the integer type drops the fraction of a number  *)
(* that is not an integer and raises nothing.                             *)
IntArray(arg) ==
    IF arg.kind = "float" THEN [i \in 1..Len(arg.v) |-> arg.v[i] \div 2]
    ELSE arg.v

(* Lines 214-224: the checks of shape; NoError when they pass. *)
CheckShape(x, shape) ==
    IF IntArrayNdim(shape) < 0 THEN ErrShapeType
    ELSE IF IntArrayNdim(shape) > 1 THEN ErrShapeNdim
    ELSE IF IntArrayNdim(shape) = 0 THEN ErrUnsized
    ELSE IF Len(x.shape) # Len(IntArray(shape)) THEN ErrShapeLen
    ELSE IF \E i \in 1..Len(shape.v) : IntArray(shape)[i] <= 0 THEN ErrShapeNonPos
    ELSE NoError

(* Lines 226-239: the checks of step; NoError when they pass. *)
CheckStep(x, step) ==
    IF step.kind = "none" THEN NoError
    ELSE IF IntArrayNdim(step) < 0 THEN ErrStepType
    ELSE IF IntArrayNdim(step) > 1 THEN ErrStepNdim
    ELSE IF IntArrayNdim(step) = 0 THEN ErrUnsized
    ELSE IF Len(x.shape) # Len(IntArray(step)) THEN ErrStepLen
    ELSE IF \E i \in 1..Len(step.v) : IntArray(step)[i] <= 0 THEN ErrStepNonPos
    ELSE NoError

(* Variant: the step left out of the extent. *)
OutputShape_nostep(xshape, shape, step) ==
    [i \in 1..Len(xshape) |-> (xshape[i] - shape[i]) + 1]

(* Variant: the quotient rounded up. *)
OutputShape_ceil(xshape, shape, step) ==
    [i \in 1..Len(xshape) |->
        ((xshape[i] - shape[i] + step[i] - 1) \div step[i]) + 1]

(* Line 241: o = (np.array(x.shape) - shape) // step + 1 *)
OutputShape(xshape, shape, step) ==
    [i \in 1..Len(xshape) |-> ((xshape[i] - shape[i]) \div step[i]) + 1]

(* Variant: the test written o < 0. *)
WindowTooLarge_strict(o) == \E i \in 1..Len(o) : o[i] < 0

(* Line 242: np.any(o <= 0) *)
WindowTooLarge(o) == \E i \in 1..Len(o) : o[i] <= 0

(* Variant: the strides of the window left out. *)
WindowStrides_positions(strides, step) ==
    [i \in 1..Len(strides) |-> strides[i] * step[i]]

(* Variant: the positions not scaled by the step. *)
WindowStrides_unscaled(strides, step) == strides \o strides

(* Variant: the two halves concatenated in the other order. *)
WindowStrides_swapped(strides, step) ==
    strides \o [i \in 1..Len(strides) |-> strides[i] * step[i]]

(* Lines 245-249: the strides of the positions, then those of the window. *)
WindowStrides(strides, step) ==
    [i \in 1..Len(strides) |-> strides[i] * step[i]] \o strides

(* Variant: the view returned without the copy. *)
SlidingCopy_view(view, writeable, k) == Ok(<<view>>)

(* Lines 252-255: a copy of the view when writeable, else the view. *)
SlidingCopy(view, writeable, k) ==
    IF writeable
    THEN [err |-> NoError,
          out |-> <<copy(view, CopyId(k), Len(mem) + 1)>>,
          alloc |-> <<[buf |-> Len(mem) + 1, data |-> CopyData(view)]>>]
    ELSE Ok(<<view>>)

sliding_window_view(x0, shape, step0, subok, writeable, k) ==
    LET x == np_array(x0, subok, ConvId(k))
        nd == Len(x.shape)
    IN  IF CheckShape(x, shape) # NoError THEN Raise(CheckShape(x, shape))
        ELSE IF CheckStep(x, step0) # NoError THEN Raise(CheckStep(x, step0))
        ELSE
          LET step == IF step0.kind = "none" THEN [i \in 1..nd |-> 1]
                      ELSE IntArray(step0)
              window == IntArray(shape)
              o == OutputShape(x.shape, window, step)
              view_shape == o \o window
              view_strides == WindowStrides(x.strides, step)
              made == as_strided(x, Some(view_shape), Some(view_strides),
                                 subok, writeable, k)
          IN  IF WindowTooLarge(o) THEN Raise(ErrWindow)
              ELSE IF made.err # NoError THEN made
              ELSE SlidingCopy(made.out[1], writeable, k)

ErrNonScalar == "ValueError: cannot broadcast a non-scalar to a scalar array"

ErrNegative ==
    "ValueError: all elements of broadcast shape must be non-negative"

(* A target shape argument                                                *)
(*   [kind |-> "seq", v |-> the sizes]    an iterable                     *)
(*   [kind |-> "scalar", v |-> <<n>>]     a bare integer n                *)
(* Line 259: tuple(shape) if np.iterable(shape) else (shape,)             *)
ShapeTuple_reversed(shape) ==
    IF shape.kind = "seq"
    THEN [i \in 1..Len(shape.v) |-> shape.v[Len(shape.v) + 1 - i]]
    ELSE <<shape.v[1]>>

(* Variant: a bare integer taken for the empty shape. *)
ShapeTuple_scalar(shape) == IF shape.kind = "seq" THEN shape.v ELSE <<>>

ShapeTuple(shape) == IF shape.kind = "seq" THEN shape.v ELSE <<shape.v[1]>>

(* Variant: a size of 0 refused as well. *)
CheckTarget_positive(array, shape) ==
    IF shape = <<>> /\ array.shape # <<>> THEN ErrNonScalar
    ELSE IF \E i \in 1..Len(shape) : shape[i] <= 0 THEN ErrNegative
    ELSE NoError

(* Variant: only the first size tested for a negative value. *)
CheckTarget_firstonly(array, shape) ==
    IF shape = <<>> /\ array.shape # <<>> THEN ErrNonScalar
    ELSE IF shape # <<>> /\ shape[1] < 0 THEN ErrNegative
    ELSE NoError

(* Lines 261-265: the checks of the target shape; NoError when they pass. *)
CheckTarget(array, shape) ==
    IF shape = <<>> /\ array.shape # <<>> THEN ErrNonScalar
    ELSE IF \E i \in 1..Len(shape) : shape[i] < 0 THEN ErrNegative
    ELSE NoError

_broadcast_to(array0, shape0, subok, readonly, k) ==
    LET shape == ShapeTuple(shape0)
        array == np_array(array0, subok, ConvId(k))
        needs_writeable == ~readonly /\ array.writeable
        extras == IF needs_writeable THEN {"reduce_ok"} ELSE {}
        op_flag == IF needs_writeable THEN "readwrite" ELSE "readonly"
        it == nditer(array, {"multi_index", "refs_ok", "zerosize_ok"} \cup extras,
                     op_flag, shape, IterId(k))
    IN  IF CheckTarget(array, shape) # NoError
        THEN Raise(CheckTarget(array, shape))
        ELSE IF it.err # NoError THEN it
        ELSE LET res == _maybe_view_as_subclass(array, it.out[1], SubId(k))
             IN  Ok(<<[res EXCEPT !.writeable =
                          IF needs_writeable /\ ~@ THEN TRUE ELSE @]>>)

(* Variant: readonly passed as False. *)
broadcast_to_writeable(array, shape, subok) ==
    _broadcast_to(array, shape, subok, FALSE, 1)

broadcast_to(array, shape, subok) == _broadcast_to(array, shape, subok, TRUE, 1)

(* The 0-d array np.array(0) that _broadcast_shape broadcasts as a       *)
(* placeholder of the shape resolved so far.                              *)
Scalar0 ==
    [id |-> 0, buf |-> 0, shape |-> <<>>, strides |-> <<>>,
     writeable |-> TRUE, type |-> "ndarray", hook |-> 0, dtype |-> "int64"]

Min(a, b) == IF a < b THEN a ELSE b

(* Variant: a batch broadcast without the placeholder. *)
RECURSIVE BroadcastBatches_noplaceholder(_, _, _)
BroadcastBatches_noplaceholder(b, shapes, pos) ==
    IF b.err # NoError \/ pos >= Len(shapes) THEN b
    ELSE LET batch == SubSeq(shapes, pos + 1,
                             Min(pos + (MaxBroadcastArgs - 1), Len(shapes)))
         IN  BroadcastBatches_noplaceholder(np_broadcast(batch), shapes,
                                            pos + (MaxBroadcastArgs - 1))

(* Lines 332-337: the batches after the first; b is the np.broadcast so   *)
(* far, pos the 0-based position of the next argument.                    *)
RECURSIVE BroadcastBatches(_, _, _)
BroadcastBatches(b, shapes, pos) ==
    IF b.err # NoError \/ pos >= Len(shapes) THEN b
    ELSE LET placeholder ==
                 broadcast_to(Scalar0, [kind |-> "seq", v |-> b.shape], FALSE)
             batch == SubSeq(shapes, pos + 1,
                             Min(pos + (MaxBroadcastArgs - 1), Len(shapes)))
         IN  BroadcastBatches(np_broadcast(<<placeholder.out[1].shape>> \o batch),
                              shapes, pos + (MaxBroadcastArgs - 1))

(* Variant: only the first two arguments broadcast. *)
_broadcast_shape_firsttwo(args) ==
    LET shapes == [a \in 1..Len(args) |-> args[a].shape]
    IN  IF args = <<>> THEN [err |-> NoError, shape |-> <<>>]
        ELSE np_broadcast(SubSeq(shapes, 1, Min(2, Len(shapes))))

(* Variant: the first argument left out of the broadcast. *)
_broadcast_shape_skipfirst(args) ==
    LET shapes == [a \in 1..Len(args) |-> args[a].shape]
    IN  IF args = <<>> THEN [err |-> NoError, shape |-> <<>>]
        ELSE np_broadcast(SubSeq(shapes, 2, Min(MaxBroadcastArgs, Len(shapes))))

(* The shape, or the error np.broadcast raises. *)
_broadcast_shape(args) ==
    LET shapes == [a \in 1..Len(args) |-> args[a].shape]
    IN  IF args = <<>> THEN [err |-> NoError, shape |-> <<>>]
        ELSE BroadcastBatches(
                 np_broadcast(SubSeq(shapes, 1, Min(MaxBroadcastArgs, Len(shapes)))),
                 shapes, MaxBroadcastArgs)

ErrKeyword ==
    "TypeError: broadcast_arrays() got an unexpected keyword argument"

(* What subscripting kwargs.keys() raises where it is a view, not a list. *)
ErrKeysView == "TypeError: 'dict_keys' object is not subscriptable"

(* Keyword arguments: [names |-> the names passed, subok |-> the value of *)
(* subok when "subok" is among them, keys |-> what kwargs.keys() is:      *)
(* "list" under Python 2, "view" under Python 3].                         *)
NoKwargs == [names |-> {}, subok |-> FALSE, keys |-> "list"]

(* Lines 391-392: the message is formatted from kwargs.keys()[0] before   *)
(* the TypeError is raised.                                               *)
KeywordError(kwargs) ==
    IF kwargs.keys = "list" THEN ErrKeyword ELSE ErrKeysView

KwSubok(kwargs) == IF "subok" \in kwargs.names THEN kwargs.subok ELSE FALSE

RECURSIVE FirstError(_)
FirstError(rs) ==
    IF rs = <<>> THEN NoError
    ELSE IF Head(rs).err # NoError THEN Head(rs).err
    ELSE FirstError(Tail(rs))

(* Variant: the views made with readonly=True. *)
broadcast_arrays_readonly(args0, kwargs) ==
    LET subok == KwSubok(kwargs)
        args == [a \in 1..Len(args0) |-> np_array(args0[a], subok, ConvId(a))]
        shape == _broadcast_shape(args)
        views == [a \in 1..Len(args) |->
                    _broadcast_to(args[a], [kind |-> "seq", v |-> shape.shape],
                                  subok, TRUE, a)]
    IN  IF kwargs.names \ {"subok"} # {} THEN Raise(KeywordError(kwargs))
        ELSE IF shape.err # NoError THEN Raise(shape.err)
        ELSE IF \A a \in 1..Len(args) : args[a].shape = shape.shape THEN Ok(args)
        ELSE IF FirstError(views) # NoError THEN Raise(FirstError(views))
        ELSE Ok([a \in 1..Len(args) |-> views[a].out[1]])

(* Variant: without the early return of the arguments. *)
broadcast_arrays_nofastpath(args0, kwargs) ==
    LET subok == KwSubok(kwargs)
        args == [a \in 1..Len(args0) |-> np_array(args0[a], subok, ConvId(a))]
        shape == _broadcast_shape(args)
        views == [a \in 1..Len(args) |->
                    _broadcast_to(args[a], [kind |-> "seq", v |-> shape.shape],
                                  subok, FALSE, a)]
    IN  IF kwargs.names \ {"subok"} # {} THEN Raise(KeywordError(kwargs))
        ELSE IF shape.err # NoError THEN Raise(shape.err)
        ELSE IF FirstError(views) # NoError THEN Raise(FirstError(views))
        ELSE Ok([a \in 1..Len(args) |-> views[a].out[1]])

broadcast_arrays(args0, kwargs) ==
    LET subok == KwSubok(kwargs)
        args == [a \in 1..Len(args0) |-> np_array(args0[a], subok, ConvId(a))]
        shape == _broadcast_shape(args)
        views == [a \in 1..Len(args) |->
                    _broadcast_to(args[a], [kind |-> "seq", v |-> shape.shape],
                                  subok, FALSE, a)]
    IN  IF kwargs.names \ {"subok"} # {} THEN Raise(KeywordError(kwargs))
        ELSE IF shape.err # NoError THEN Raise(shape.err)
        ELSE IF \A a \in 1..Len(args) : args[a].shape = shape.shape THEN Ok(args)
        ELSE IF FirstError(views) # NoError THEN Raise(FirstError(views))
        ELSE Ok([a \in 1..Len(args) |-> views[a].out[1]])

----------------------------------------------------------------------------
(* numpy/core/arrayprint.py: printing options *)

(* Option values are opaque to the code but for the test against None;   *)
(* each is written as its repr.                                           *)
PyNone == "None"

(* Lines 39-48: the options at import. *)
DefaultPrintOptions ==
    [precision |-> "8", threshold |-> "1000", edgeitems |-> "3",
     linewidth |-> "75", suppress |-> "False", nanstr |-> "nan",
     infstr |-> "inf", formatter |-> PyNone]

ErrInvalidOption == "ValueError: is an invalid printing option."

(* dict.update: d with the entries of o put in. *)
update(d, o) ==
    [k \in DOMAIN d \cup DOMAIN o |-> IF k \in DOMAIN o THEN o[k] ELSE d[k]]

(* Variant: overridden_options starts empty. *)
PrintOptions_init_empty(kwargs, current) ==
    IF \E key \in DOMAIN kwargs : key \notin DOMAIN current
    THEN [err |-> ErrInvalidOption, obj |-> <<>>]
    ELSE [err |-> NoError,
          obj |-> <<[overridden_options |->
                        [key \in {k \in DOMAIN kwargs : kwargs[k] # PyNone}
                            |-> kwargs[key]],
                     old_options |-> current,
                     kwargs |-> kwargs]>>]

(* PrintOptions.__init__, lines 160-168, with current the value of       *)
(* _printoptions: the object made, or the error raised; the object also   *)
(* keeps the kwargs it was made from, for the properties.                 *)
PrintOptions_init(kwargs, current) ==
    IF \E key \in DOMAIN kwargs : key \notin DOMAIN current
    THEN [err |-> ErrInvalidOption, obj |-> <<>>]
    ELSE [err |-> NoError,
          obj |-> <<[overridden_options |->
                        update([formatter |-> PyNone],
                               [key \in {k \in DOMAIN kwargs : kwargs[k] # PyNone}
                                   |-> kwargs[key]]),
                     old_options |-> current,
                     kwargs |-> kwargs]>>]

(* PrintOptions.apply, lines 191-192: the new value of _printoptions. *)
apply(self, current) == update(current, self.overridden_options)

----------------------------------------------------------------------------
(* numpy/core/overrides.py: signatures of dispatchers *)

(* A signature is the sequence of its parameters                         *)
(*   [name, kind, default]                                                *)
(* default is Empty for a parameter without one, else the repr of the     *)
(* default value.                                                         *)
Empty == "empty"

ErrSignatures ==
    "RuntimeError: implementation and dispatcher have different function signatures"

ErrDefaults ==
    "RuntimeError: dispatcher functions can only use None for default argument values"

(* zip of two sequences: as long as the shorter one. *)
zip(a, b) == [i \in 1..Min(Len(a), Len(b)) |-> <<a[i], b[i]>>]

(* Lines 75-88: the loop over the zipped parameters; the error raised, or *)
(* NoError when it runs to its end.                                       *)
RECURSIVE VerifyPairs(_)
VerifyPairs(pairs) ==
    IF pairs = <<>> THEN NoError
    ELSE LET p1 == Head(pairs)[1]
             p2 == Head(pairs)[2]
         IN  IF \/ p1.name # p2.name
                \/ p1.kind # p2.kind
                \/ (p1.default = Empty /\ p2.default # Empty)
             THEN ErrSignatures
             ELSE IF p1.default # Empty /\ p2.default # PyNone
                 THEN ErrDefaults
             ELSE VerifyPairs(Tail(pairs))

verify_matching_signatures(implementation, dispatcher) ==
    VerifyPairs(zip(implementation, dispatcher))

----------------------------------------------------------------------------
(* The caller *)

(* The shapes of the docstring examples: the 3x4 array of                *)
(* sliding_window_view, the row and the column of broadcast_arrays.       *)
ExampleShapes == {<<3, 4>>, <<1, 3>>, <<3, 1>>}

SrcShapes == SeqsUpTo(0..MaxDim, MaxRank) \cup ExampleShapes

Layouts(shape) == {CStrides(shape), FStrides(shape)}

NoArg == [kind |-> "none", v |-> <<>>]

OddArgs ==
    {[kind |-> "scalar", v |-> <<2>>], [kind |-> "nested", v |-> <<>>],
     [kind |-> "bad", v |-> <<>>]}

(* Windows and steps with entries that are not integers: (0.5,), (2.5,),  *)
(* (1.5, 1.5) and the step (1.5,).                                        *)
FloatWindowArgs == {[kind |-> "float", v |-> w] : w \in {<<1>>, <<5>>, <<3, 3>>}}

FloatStepArgs == {[kind |-> "float", v |-> <<3>>]}

WindowArgs ==
    {[kind |-> "seq", v |-> w] : w \in SeqsUpTo(-1..MaxWin, MaxRank)}
        \cup OddArgs \cup FloatWindowArgs

StepArgs ==
    {[kind |-> "seq", v |-> w] : w \in SeqsUpTo(0..MaxStep, MaxRank)}
        \cup OddArgs \cup FloatStepArgs \cup {NoArg}

TargetArgs ==
    {[kind |-> "seq", v |-> t] : t \in SeqsUpTo(-1..(MaxDim + 1), MaxRank)}
        \cup {[kind |-> "scalar", v |-> <<n>>] : n \in -1..(MaxDim + 1)}

(* The shape and strides arguments of as_strided: omitted (None), or a    *)
(* sequence; strides are in bytes, whole elements forwards or backwards.  *)
ViewShapeArgs ==
    {[kind |-> "seq", v |-> t] : t \in SeqsUpTo(0..MaxDim, MaxRank)}
        \cup {NoArg}

StrideArgs ==
    {[kind |-> "seq", v |-> t] :
        t \in SeqsUpTo({-ItemSize, 0, ItemSize, 2 * ItemSize}, MaxRank)}
        \cup {NoArg}

(* The optional argument a call passes. *)
Opt(arg) == IF arg.kind = "none" THEN None ELSE Some(arg.v)

KwargSets ==
    {NoKwargs, [names |-> {"subok"}, subok |-> FALSE, keys |-> "list"],
     [names |-> {"subok"}, subok |-> TRUE, keys |-> "list"]}
        \cup {[names |-> n, subok |-> ("subok" \in n), keys |-> k] :
                 n \in {{"order"}, {"subok", "order"}}, k \in {"list", "view"}}

NoCall ==
    [op |-> "none", shape |-> NoArg, step |-> NoArg, strides |-> NoArg,
     subok |-> FALSE, writeable |-> FALSE, kwargs |-> NoKwargs,
     implementation |-> <<>>, dispatcher |-> <<>>, shapes |-> <<>>,
     sources |-> <<>>, data |-> <<>>]

NoResult == [err |-> NoError, out |-> <<>>, shape |-> <<>>]

(* The keyword arguments a caller passes for printing options: any of     *)
(* three options, each None or a value other than the default, and a name *)
(* that is no option.                                                     *)
OptionArgs ==
    [precision |-> {PyNone, "4"}, suppress |-> {PyNone, "True"},
     formatter |-> {PyNone, "f"}, bogus |-> {"1"}]

PrintKwargs ==
    UNION {{kw \in [K -> {PyNone, "4", "True", "f", "1"}] :
               \A k \in K : kw[k] \in OptionArgs[k]} :
           K \in SUBSET DOMAIN OptionArgs}

(* The signatures a def statement can make, of up to MaxParams           *)
(* parameters: names differ, keyword-only parameters come last, and a     *)
(* positional parameter without a default follows none that has one.      *)
Parameters ==
    [name : {"a", "b", "out"},
     kind : {"POSITIONAL_OR_KEYWORD", "KEYWORD_ONLY"},
     default : {Empty, PyNone, "0"}]

Signatures ==
    {sig \in SeqsUpTo(Parameters, MaxParams) :
        \A i, j \in 1..Len(sig) :
           i < j => /\ sig[i].name # sig[j].name
                    /\ sig[i].kind = "KEYWORD_ONLY" => sig[j].kind = "KEYWORD_ONLY"
                    /\ (/\ sig[i].kind = "POSITIONAL_OR_KEYWORD"
                        /\ sig[j].kind = "POSITIONAL_OR_KEYWORD"
                        /\ sig[i].default # Empty) => sig[j].default # Empty}

NoPrintCall ==
    [op |-> "none", kwargs |-> <<>>, obj |-> 0, err |-> NoError,
     before |-> DefaultPrintOptions, entered |-> DefaultPrintOptions]

Init ==
    /\ pc = "idle"
    /\ arrays = <<>>
    /\ mem = <<>>
    /\ call = NoCall
    /\ result = NoResult
    /\ writes = 0
    /\ _printoptions = DefaultPrintOptions
    /\ managers = <<>>
    /\ pcall = NoPrintCall
    /\ blocks = <<>>

(* The caller creates one more array; the first may be of a subclass, or  *)
(* a base-class array of a structured element type, and in Fortran order; *)
(* the others are C-ordered base-class arrays of integers.                *)
NewArray(limit) ==
    /\ pc = "idle"
    /\ Len(arrays) < limit
    /\ \E shape \in SrcShapes, wr \in BOOLEAN :
       \E st \in IF arrays = <<>> THEN Layouts(shape) ELSE {CStrides(shape)} :
       \E ty \in IF arrays = <<>> THEN ArrayClasses ELSE {"ndarray"} :
       \E dt \in IF arrays = <<>> /\ ty = "ndarray" THEN DTypes ELSE {"int64"} :
          /\ arrays' = Append(arrays,
                 [id |-> Len(arrays) + 1, buf |-> Len(arrays) + 1,
                  shape |-> shape, strides |-> st, writeable |-> wr,
                  type |-> ty, hook |-> 0, dtype |-> dt])
          /\ mem' = Append(mem, Buffer(shape, st))
    /\ UNCHANGED <<pc, call, result, writes>>
    /\ UNCHANGED printvars

(* The memory after the buffers written by a call are stored: a buffer    *)
(* numbered past the last is new, any other is overwritten.               *)
RECURSIVE Stored(_, _)
Stored(m, alloc) ==
    IF alloc = <<>> THEN m
    ELSE Stored(IF Head(alloc).buf > Len(m) THEN Append(m, Head(alloc).data)
                ELSE [m EXCEPT ![Head(alloc).buf] = Head(alloc).data],
                Tail(alloc))

(* The caller's array x after a call that returned the objects out: an    *)
(* object of out that is x itself (same identity) carries what the call   *)
(* assigned to it.                                                        *)
AfterCall(x, out) ==
    IF \E j \in 1..Len(out) : out[j].id = x.id
    THEN out[CHOOSE j \in 1..Len(out) : out[j].id = x.id]
    ELSE x

(* The call c gave r: the call keeps the caller's arrays and the memory   *)
(* as they were before it in sources and data.                            *)
Return(c, r) ==
    /\ pc' = "returned"
    /\ call' = [c EXCEPT !.sources = arrays, !.data = mem]
    /\ result' = [err |-> r.err, out |-> r.out, shape |-> <<>>]
    /\ mem' = Stored(mem, r.alloc)
    /\ arrays' = [i \in 1..Len(arrays) |-> AfterCall(arrays[i], r.out)]
    /\ UNCHANGED writes
    /\ UNCHANGED printvars

CallAsStrided ==
    /\ pc = "idle"
    /\ Len(arrays) = 1
    /\ \E shape \in ViewShapeArgs, strides \in StrideArgs, subok \in BOOLEAN,
          writeable \in BOOLEAN :
          Return([NoCall EXCEPT !.op = "as_strided", !.shape = shape,
                                !.strides = strides, !.subok = subok,
                                !.writeable = writeable],
                 as_strided(arrays[1], Opt(shape), Opt(strides), subok,
                            writeable, 1))

CallBroadcastTo ==
    /\ pc = "idle"
    /\ Len(arrays) = 1
    /\ \E shape \in TargetArgs, subok \in BOOLEAN :
          Return([NoCall EXCEPT !.op = "broadcast_to", !.shape = shape,
                                !.subok = subok],
                 broadcast_to(arrays[1], shape, subok))

CallSlidingWindowView ==
    /\ pc = "idle"
    /\ Len(arrays) = 1
    /\ \E shape \in WindowArgs, step \in StepArgs, subok \in BOOLEAN,
          writeable \in BOOLEAN :
          Return([NoCall EXCEPT !.op = "sliding_window_view", !.shape = shape,
                                !.step = step, !.subok = subok,
                                !.writeable = writeable],
                 sliding_window_view(arrays[1], shape, step, subok, writeable, 1))

CallBroadcastArrays ==
    /\ pc = "idle"
    /\ \E kwargs \in KwargSets :
          Return([NoCall EXCEPT !.op = "broadcast_arrays", !.kwargs = kwargs,
                                !.subok = KwSubok(kwargs)],
                 broadcast_arrays(arrays, kwargs))

(* Element idx of x lies in the buffer x reads. *)
InBuffer(x, idx) ==
    /\ Dot(idx, x.strides) >= 0
    /\ Dot(idx, x.strides) <= (Len(mem[x.buf]) - 1) * ItemSize

(* The outcomes of a store of -1 outside the buffer of the array, which   *)
(* nothing checks (docstring of as_strided, lines 74-77: such elements    *)
(* point to invalid memory and can corrupt results or crash the program): *)
(* the program crashes, or it goes on with the store landed in memory of  *)
(* no array or on any element of any buffer.                              *)
StrayStore(m) ==
    {[pc |-> "crashed", mem |-> m], [pc |-> "returned", mem |-> m]}
        \cup UNION {{[pc |-> "returned", mem |-> [m EXCEPT ![b][k] = -1]] :
                        k \in 1..Len(m[b])} : b \in 1..Len(m)}

(* The caller stores -1 at one element of a returned array that allows    *)
(* it: inside the buffer the element is set, outside the outcome is any   *)
(* of StrayStore.                                                         *)
WriteElement ==
    /\ pc = "returned"
    /\ writes < MaxWrites
    /\ \E i \in 1..Len(result.out) :
          /\ result.out[i].writeable
          /\ \E idx \in Indices(result.out[i].shape) :
                IF InBuffer(result.out[i], idx)
                THEN /\ mem' = [mem EXCEPT
                               ![result.out[i].buf][(Dot(idx, result.out[i].strides)
                                                        \div ItemSize) + 1] = -1]
                     /\ pc' = pc
                ELSE \E o \in StrayStore(mem) : pc' = o.pc /\ mem' = o.mem
    /\ writes' = writes + 1
    /\ UNCHANGED <<arrays, call, result>>
    /\ UNCHANGED printvars

(* set_printoptions, line 296: a PrintOptions made from kwargs, applied.  *)
SetPrintOptions ==
    /\ \E kwargs \in PrintKwargs :
          LET made == PrintOptions_init(kwargs, _printoptions)
          IN  /\ _printoptions' =
                    IF made.err # NoError THEN _printoptions
                    ELSE apply(made.obj[1], _printoptions)
              /\ pcall' = [op |-> "set_printoptions", kwargs |-> kwargs,
                           obj |-> 0, err |-> made.err,
                           before |-> _printoptions,
                           entered |-> _printoptions]
    /\ UNCHANGED <<managers, blocks>>
    /\ UNCHANGED viewvars

(* A PrintOptions object made from kwargs and kept by the caller. *)
NewPrintOptions ==
    /\ Len(managers) < MaxManagers
    /\ \E kwargs \in PrintKwargs :
          LET made == PrintOptions_init(kwargs, _printoptions)
          IN  /\ managers' = managers \o made.obj
              /\ pcall' = [op |-> "PrintOptions", kwargs |-> kwargs,
                           obj |-> Len(managers'), err |-> made.err,
                           before |-> _printoptions,
                           entered |-> _printoptions]
    /\ UNCHANGED <<_printoptions, blocks>>
    /\ UNCHANGED viewvars

(* p.apply() on an object made earlier. *)
ApplyPrintOptions ==
    /\ \E i \in 1..Len(managers) :
          /\ _printoptions' = apply(managers[i], _printoptions)
          /\ pcall' = [op |-> "apply", kwargs |-> managers[i].kwargs,
                       obj |-> i, err |-> NoError, before |-> _printoptions,
                       entered |-> _printoptions]
    /\ UNCHANGED <<managers, blocks>>
    /\ UNCHANGED viewvars

(* PrintOptions.__exit__, lines 173-174: the new value of _printoptions. *)
exit(self, current) == update(current, self.old_options)

(* with p: the block of a with statement entered on an object made        *)
(* earlier, possibly one whose block is already open; __enter__, lines    *)
(* 170-171, applies it.                                                   *)
EnterPrintOptions ==
    /\ Len(blocks) < MaxBlocks
    /\ \E i \in 1..Len(managers) :
          /\ _printoptions' = apply(managers[i], _printoptions)
          /\ blocks' = Append(blocks, [obj |-> i, entered |-> _printoptions])
          /\ pcall' = [op |-> "__enter__", kwargs |-> managers[i].kwargs,
                       obj |-> i, err |-> NoError, before |-> _printoptions,
                       entered |-> _printoptions]
    /\ UNCHANGED managers
    /\ UNCHANGED viewvars

(* The innermost block is left, at its end or by an exception, which      *)
(* __exit__ does not look at and lets pass.                               *)
ExitPrintOptions ==
    /\ blocks # <<>>
    /\ LET top == blocks[Len(blocks)]
       IN  /\ _printoptions' = exit(managers[top.obj], _printoptions)
           /\ pcall' = [op |-> "__exit__", kwargs |-> managers[top.obj].kwargs,
                        obj |-> top.obj, err |-> NoError,
                        before |-> _printoptions, entered |-> top.entered]
    /\ blocks' = SubSeq(blocks, 1, Len(blocks) - 1)
    /\ UNCHANGED managers
    /\ UNCHANGED viewvars

(* An array of a shape, as the arguments of _broadcast_shape are. *)
ArrayOfShape(shape) == [Scalar0 EXCEPT !.shape = shape, !.strides = CStrides(shape)]

(* The numbers of arguments around the ends of the batches: the first     *)
(* holds MaxBroadcastArgs arguments, each later one a placeholder and     *)
(* MaxBroadcastArgs - 1 arguments.                                        *)
BatchEdges ==
    {n \in 0..MaxInputs :
        \/ n <= 2
        \/ \E e \in {MaxBroadcastArgs, 2 * MaxBroadcastArgs - 1} :
              n \in (e - 1)..(e + 1)
        \/ n = MaxInputs}

(* The positions of an argument list around the ends of the batches.    *)
BatchPositions(n) == {i \in 1..n : i \in BatchEdges}

BatchShapes == {<<1>>, <<2>>, <<3>>, <<2, 1>>, <<0>>}

(* _broadcast_shape on n arrays of shape (1,) but for the arrays at       *)
(* positions p and q (0: none), which lie around the ends of the batches. *)
CallBroadcastShape ==
    /\ pc = "idle"
    /\ arrays = <<>>
    /\ \E n \in BatchEdges :
       \E p \in {0} \cup BatchPositions(n) :
       \E q \in {i \in {0} \cup BatchPositions(n) : i >= p} :
       \E sp \in BatchShapes, sq \in BatchShapes :
          LET shapes == [i \in 1..n |->
                            IF i = p THEN sp ELSE IF i = q THEN sq ELSE <<1>>]
              b == _broadcast_shape([i \in 1..n |-> ArrayOfShape(shapes[i])])
          IN  /\ call' = [NoCall EXCEPT !.op = "_broadcast_shape",
                                        !.shapes = shapes]
              /\ result' = [err |-> b.err, out |-> <<>>, shape |-> b.shape]
    /\ pc' = "returned"
    /\ UNCHANGED <<arrays, mem, writes>>
    /\ UNCHANGED printvars

NextBroadcastShape == CallBroadcastShape

SpecBroadcastShape == Init /\ [][NextBroadcastShape]_vars

(* verify_matching_signatures(implementation, dispatcher), as the         *)
(* decorator array_function_dispatch calls it.                            *)
CallVerify ==
    /\ pc = "idle"
    /\ \E implementation \in Signatures, dispatcher \in Signatures :
          Return([NoCall EXCEPT !.op = "verify_matching_signatures",
                                !.implementation = implementation,
                                !.dispatcher = dispatcher],
                 LET e == verify_matching_signatures(implementation, dispatcher)
                 IN  IF e = NoError THEN Ok(<<>>) ELSE Raise(e))

NextVerify == CallVerify

SpecVerify == Init /\ [][NextVerify]_vars

NextPrintOptions == SetPrintOptions \/ NewPrintOptions \/ ApplyPrintOptions

NextWithBlocks ==
    \/ SetPrintOptions
    \/ NewPrintOptions
    \/ ApplyPrintOptions
    \/ EnterPrintOptions
    \/ ExitPrintOptions

SpecWithBlocks == Init /\ [][NextWithBlocks]_vars

SpecPrintOptions == Init /\ [][NextPrintOptions]_vars

NextAsStrided == NewArray(1) \/ CallAsStrided \/ WriteElement

SpecAsStrided == Init /\ [][NextAsStrided]_vars

NextBroadcastTo == NewArray(1) \/ CallBroadcastTo

SpecBroadcastTo == Init /\ [][NextBroadcastTo]_vars

NextSliding == NewArray(1) \/ CallSlidingWindowView \/ WriteElement

SpecSliding == Init /\ [][NextSliding]_vars

NextBroadcastArrays == NewArray(MaxArgs) \/ CallBroadcastArrays \/ WriteElement

SpecBroadcastArrays == Init /\ [][NextBroadcastArrays]_vars

NextViews ==
    \/ NewArray(MaxArgs)
    \/ CallAsStrided
    \/ CallBroadcastTo
    \/ CallSlidingWindowView
    \/ CallBroadcastArrays
    \/ WriteElement

SpecViews == Init /\ [][NextViews]_vars

Next ==
    \/ NewArray(MaxArgs)
    \/ CallAsStrided
    \/ CallBroadcastTo
    \/ CallSlidingWindowView
    \/ CallBroadcastArrays
    \/ WriteElement
    \/ SetPrintOptions
    \/ NewPrintOptions
    \/ ApplyPrintOptions
    \/ EnterPrintOptions
    \/ ExitPrintOptions
    \/ CallVerify
    \/ CallBroadcastShape

Spec == Init /\ [][Next]_vars

----------------------------------------------------------------------------
(* Properties *)

Returned(op) == pc = "returned" /\ call.op = op

(* A tuple of sizes. *)
IsShape(t) == \A i \in 1..Len(t) : t[i] >= 0

(* s broadcasts to t: aligned at the right, every axis of s has size 1 or *)
(* the size of t.                                                         *)
RightAligned(s, t) ==
    /\ Len(s) <= Len(t)
    /\ \A i \in 1..Len(s) : s[i] = 1 \/ s[i] = t[Len(t) - Len(s) + i]

(* The index of the source that index idx of the broadcast view shows. *)
SourceIndex(s, idx) ==
    [i \in 1..Len(s) |-> IF s[i] = 1 THEN 0 ELSE idx[Len(idx) - Len(s) + i]]

(* C1: for a target shape t that the source shape broadcasts to,          *)
(* broadcast_to returns a view of shape t, and the view at every index    *)
(* shows the source element at that index without the leading padded axes *)
(* and with 0 on every source axis of size 1.                             *)
C1_BroadcastToView ==
    (/\ Returned("broadcast_to")
     /\ IsShape(call.shape.v)
     /\ RightAligned(arrays[1].shape, call.shape.v))
    => /\ result.err = NoError
       /\ Len(result.out) = 1
       /\ result.out[1].shape = call.shape.v
       /\ result.out[1].buf = arrays[1].buf
       /\ \A idx \in Indices(call.shape.v) :
             Read(result.out[1], idx)
                = Read(arrays[1], SourceIndex(arrays[1].shape, idx))

C1_Witness ==
    /\ Returned("broadcast_to")
    /\ result.err = NoError
    /\ arrays[1].shape = <<1, 2>>
    /\ arrays[1].strides = FStrides(<<1, 2>>)
    /\ call.shape = [kind |-> "seq", v |-> <<2, 2>>]

(* C2: whatever the source's writeable flag and the target shape, the     *)
(* array broadcast_to returns is read-only.                               *)
C2_BroadcastToReadOnly ==
    (Returned("broadcast_to") /\ result.err = NoError)
    => \A i \in 1..Len(result.out) : ~result.out[i].writeable

C2_Witness ==
    /\ Returned("broadcast_to")
    /\ result.err = NoError
    /\ arrays[1].writeable
    /\ arrays[1].shape = <<2, 2>>
    /\ call.shape.v = arrays[1].shape

(* The unification of two shapes aligned at the right: a missing leading  *)
(* axis counts as size 1 and a size 1 stretches to the other size.        *)
Padded(s, n) == [i \in 1..n |-> IF i <= n - Len(s) THEN 1 ELSE s[i - (n - Len(s))]]

Unify2(s, t) ==
    LET n == IF Len(s) > Len(t) THEN Len(s) ELSE Len(t)
        ps == Padded(s, n)
        pt == Padded(t, n)
    IN  [ok |-> \A i \in 1..n : ps[i] = pt[i] \/ ps[i] = 1 \/ pt[i] = 1,
         shape |-> [i \in 1..n |-> IF ps[i] = 1 THEN pt[i] ELSE ps[i]]]

RECURSIVE UnifyFold(_, _)
UnifyFold(acc, shapes) ==
    IF shapes = <<>> \/ ~acc.ok THEN acc
    ELSE UnifyFold(Unify2(acc.shape, Head(shapes)), Tail(shapes))

UnifyAll(shapes) == UnifyFold([ok |-> TRUE, shape |-> <<>>], shapes)

InputShapes == [a \in 1..Len(arrays) |-> arrays[a].shape]

KnownKwargs == call.kwargs.names \subseteq {"subok"}

(* C3: for inputs whose shapes unify, broadcast_arrays returns one array  *)
(* per input, each of the shape the pairwise right-aligned unification of *)
(* all input shapes gives.                                                *)
C3_BroadcastArraysShape ==
    (/\ Returned("broadcast_arrays")
     /\ KnownKwargs
     /\ UnifyAll(InputShapes).ok)
    => /\ result.err = NoError
       /\ Len(result.out) = Len(arrays)
       /\ \A i \in 1..Len(result.out) :
             result.out[i].shape = UnifyAll(InputShapes).shape

C3_Witness ==
    /\ Returned("broadcast_arrays")
    /\ InputShapes = <<<<1, 3>>, <<3, 1>>>>
    /\ result.err = NoError
    /\ result.out[1].shape = <<3, 3>>
    /\ result.out[2].shape = <<3, 3>>

AllUnified ==
    /\ UnifyAll(InputShapes).ok
    /\ \A i \in 1..Len(arrays) : arrays[i].shape = UnifyAll(InputShapes).shape

(* C4 as claimed: when every input already has the unified shape, the     *)
(* list returned holds the very input objects, in order.                  *)
C4_IdenticalInputs ==
    (Returned("broadcast_arrays") /\ KnownKwargs /\ AllUnified)
    => /\ result.err = NoError
       /\ \A i \in 1..Len(result.out) : result.out[i].id = arrays[i].id
       /\ Len(result.out) = Len(arrays)

(* C4, amended: when every input already has the unified shape, the list  *)
(* returned holds, in order, each input as np.array(copy=False, subok)    *)
(* converts it: the very input object when it is a base-class array or    *)
(* subok is requested, else a new base-class view of the input with its   *)
(* buffer, shape, strides and writeable flag; no buffer is allocated.     *)
C4_FastPath ==
    (Returned("broadcast_arrays") /\ KnownKwargs /\ AllUnified)
    => /\ result.err = NoError
       /\ Len(result.out) = Len(arrays)
       /\ Len(mem) = Len(arrays)
       /\ \A i \in 1..Len(result.out) :
             IF arrays[i].type = "ndarray" \/ call.subok
             THEN result.out[i] = arrays[i]
             ELSE /\ result.out[i].id \notin {arrays[j].id : j \in 1..Len(arrays)}
                  /\ result.out[i].type = "ndarray"
                  /\ result.out[i].buf = arrays[i].buf
                  /\ result.out[i].shape = arrays[i].shape
                  /\ result.out[i].strides = arrays[i].strides
                  /\ result.out[i].writeable = arrays[i].writeable

C4_Witness ==
    /\ Returned("broadcast_arrays")
    /\ result.err = NoError
    /\ InputShapes = <<<<2, 2>>, <<2, 2>>>>
    /\ arrays[1].type = "subclass"
    /\ ~call.subok
    /\ result.out[1].id # arrays[1].id
    /\ result.out[2] = arrays[2]

----------------------------------------------------------------------------
(* sliding_window_view *)

WindowOf == IntArray(call.shape)

StepOf ==
    IF call.step.kind = "none" THEN [i \in 1..Len(arrays[1].shape) |-> 1]
    ELSE IntArray(call.step)

(* e = floor((n - w) / s) + 1, for s > 0 *)
IsExtent(e, n, w, s) == (e - 1) * s <= n - w /\ n - w < e * s

(* C5: when sliding_window_view returns, the shape of its result is the   *)
(* extents floor((size - window) / step) + 1 of the axes followed by the  *)
(* window shape, twice the rank of the source.                            *)
C5_SlidingShape ==
    (Returned("sliding_window_view") /\ result.err = NoError)
    => LET nd == Len(arrays[1].shape)
           vs == result.out[1].shape
       IN  /\ Len(vs) = 2 * nd
           /\ \A i \in 1..nd :
                 /\ IsExtent(vs[i], arrays[1].shape[i], WindowOf[i], StepOf[i])
                 /\ vs[nd + i] = WindowOf[i]

C5_Witness ==
    /\ Returned("sliding_window_view")
    /\ result.err = NoError
    /\ arrays[1].shape = <<3, 4>>
    /\ WindowOf = <<2, 1>>
    /\ call.step = [kind |-> "seq", v |-> <<2, 2>>]
    /\ result.out[1].shape = <<1, 2, 2, 1>>

(* The 2x2 window of a 4-d view at position p. *)
WindowAt(v, p) ==
    [a \in 1..2 |-> [b \in 1..2 |-> Read(v, p \o <<a - 1, b - 1>>)]]

Example(window, step) ==
    /\ Returned("sliding_window_view")
    /\ writes = 0
    /\ arrays[1].shape = <<3, 4>>
    /\ call.shape = [kind |-> "seq", v |-> window]
    /\ call.step = step

(* C6: the result of sliding_window_view at position p and in-window      *)
(* index q is the source element at p[i]*step[i] + q[i] on every axis i;  *)
(* on the 3x4 array 10*i+j, window (2,2) gives shape (2,3,2,2) with       *)
(* [[0,1],[10,11]] at [0,0] and [[12,13],[22,23]] at [1,2], and with      *)
(* step (1,2) shape (2,2,2,2) with [[2,3],[12,13]] at [0,1].              *)
C6_SlidingElements ==
    /\ (Returned("sliding_window_view") /\ result.err = NoError /\ writes = 0)
       => LET nd == Len(arrays[1].shape)
              v == result.out[1]
          IN  \A idx \in Indices(v.shape) :
                 Read(v, idx)
                    = Read(arrays[1],
                           [i \in 1..nd |-> idx[i] * StepOf[i] + idx[nd + i]])
    /\ Example(<<2, 2>>, NoArg)
       => /\ result.err = NoError
          /\ result.out[1].shape = <<2, 3, 2, 2>>
          /\ WindowAt(result.out[1], <<0, 0>>) = <<<<0, 1>>, <<10, 11>>>>
          /\ WindowAt(result.out[1], <<1, 2>>) = <<<<12, 13>>, <<22, 23>>>>
    /\ Example(<<2, 2>>, [kind |-> "seq", v |-> <<1, 2>>])
       => /\ result.err = NoError
          /\ result.out[1].shape = <<2, 2, 2, 2>>
          /\ WindowAt(result.out[1], <<0, 1>>) = <<<<2, 3>>, <<12, 13>>>>

C6_Witness ==
    /\ Example(<<2, 2>>, [kind |-> "seq", v |-> <<1, 2>>])
    /\ arrays[1].strides = FStrides(<<3, 4>>)
    /\ call.writeable
    /\ result.err = NoError

WindowIsSeq == call.shape.kind = "seq"

SameRank(arg) == Len(arg.v) = Len(arrays[1].shape)

StepIsValid ==
    \/ call.step.kind = "none"
    \/ /\ call.step.kind = "seq"
       /\ SameRank(call.step)
       /\ \A i \in 1..Len(call.step.v) : call.step.v[i] > 0

WindowExceeds == \E i \in 1..Len(WindowOf) : WindowOf[i] > arrays[1].shape[i]

WindowNonPositive == \E i \in 1..Len(WindowOf) : WindowOf[i] <= 0

(* C7 as claimed: a window (of the source's rank) larger than the input   *)
(* on some axis raises the window-too-large error, and one with a zero or *)
(* negative entry raises the non-positive-value error.                    *)
C7_WindowErrors ==
    Returned("sliding_window_view")
    => /\ (WindowIsSeq /\ SameRank(call.shape) /\ WindowExceeds)
             => result.err = ErrWindow
       /\ (WindowIsSeq /\ SameRank(call.shape) /\ WindowNonPositive)
             => result.err = ErrShapeNonPos

(* C7, amended: a window of the source's rank with a zero or negative     *)
(* entry raises the non-positive-value error; a window of the source's    *)
(* rank with positive entries only, larger than the input on some axis    *)
(* and given with a valid step, raises the window-too-large error.        *)
C7_WindowErrorsInOrder ==
    Returned("sliding_window_view")
    => /\ (/\ WindowIsSeq /\ SameRank(call.shape) /\ ~WindowNonPositive
           /\ StepIsValid /\ WindowExceeds)
             => result.err = ErrWindow
       /\ (WindowIsSeq /\ SameRank(call.shape) /\ WindowNonPositive)
             => result.err = ErrShapeNonPos

C7_Witness ==
    /\ Returned("sliding_window_view")
    /\ arrays[1].shape = <<2, 2>>
    /\ WindowOf = <<3, 1>>
    /\ call.step = [kind |-> "seq", v |-> <<2, 1>>]
    /\ result.err = ErrWindow

ValidationErrors ==
    {ErrShapeType, ErrShapeNdim, ErrShapeLen, ErrShapeNonPos,
     ErrStepType, ErrStepNdim, ErrStepLen, ErrStepNonPos}

StepNonPositive == \E i \in 1..Len(call.step.v) : call.step.v[i] <= 0

(* C8: the checks of sliding_window_view run in a fixed order, each with  *)
(* an error of its own: the window is not a flat sequence of integers,    *)
(* its length is not the source's rank, it has an entry that is not       *)
(* positive, then the same three for a step that is given; the error      *)
(* raised is that of the first check that fails.                          *)
C8_ValidationOrder ==
    Returned("sliding_window_view")
    => IF ~WindowIsSeq THEN result.err \in {ErrShapeType, ErrShapeNdim}
       ELSE IF ~SameRank(call.shape) THEN result.err = ErrShapeLen
       ELSE IF WindowNonPositive THEN result.err = ErrShapeNonPos
       ELSE IF call.step.kind = "none" THEN result.err \notin ValidationErrors
       ELSE IF call.step.kind # "seq"
            THEN result.err \in {ErrStepType, ErrStepNdim}
       ELSE IF ~SameRank(call.step) THEN result.err = ErrStepLen
       ELSE IF StepNonPositive THEN result.err = ErrStepNonPos
       ELSE result.err \notin ValidationErrors

(* No two indices of x address the same element. *)
NoOverlap(x) ==
    \A i1, i2 \in Indices(x.shape) :
        Dot(i1, x.strides) = Dot(i2, x.strides) => i1 = i2

(* C9: with writeable requested the result of sliding_window_view is a    *)
(* copy in a buffer of its own, no two positions of which share an        *)
(* element, and no write through it changes the source; without, the      *)
(* result is the read-only view on the buffer of the source.              *)
C9_SlidingWritePolicy ==
    (Returned("sliding_window_view") /\ result.err = NoError)
    => IF call.writeable
       THEN /\ result.out[1].buf # arrays[1].buf
            /\ NoOverlap(result.out[1])
            /\ mem[arrays[1].buf] = Buffer(arrays[1].shape, arrays[1].strides)
       ELSE /\ result.out[1].buf = arrays[1].buf
            /\ ~result.out[1].writeable

C9_Witness ==
    /\ Returned("sliding_window_view")
    /\ result.err = NoError
    /\ call.writeable
    /\ arrays[1].writeable
    /\ arrays[1].shape = <<3, 4>>
    /\ WindowOf = <<2, 2>>
    /\ call.step = NoArg
    /\ writes = 1
    /\ Read(result.out[1], <<0, 0, 0, 1>>) = -1
    /\ Read(result.out[1], <<0, 1, 0, 0>>) = 1

(* C10: broadcast_to to the shape () of an array of rank above 0 raises   *)
(* the non-scalar-to-scalar error; to a shape with a negative entry it    *)
(* raises the negative-dimension error.                                   *)
C10_BroadcastToTargetErrors ==
    Returned("broadcast_to")
    => /\ (call.shape.v = <<>> /\ arrays[1].shape # <<>>)
             => result.err = ErrNonScalar
       /\ (\E i \in 1..Len(call.shape.v) : call.shape.v[i] < 0)
             => result.err = ErrNegative

C10_Witness ==
    /\ Returned("broadcast_to")
    /\ arrays[1].shape = <<2>>
    /\ call.shape = [kind |-> "seq", v |-> <<2, -1>>]
    /\ result.err = ErrNegative

(* The errors of a source that does not broadcast to the target. *)
BroadcastIncompatible == {ErrIterBroadcast, ErrIterNdim, ErrNonScalar}

(* C11: for a target of non-negative sizes, broadcast_to returns a view   *)
(* exactly when the source shape, padded on the left with axes of size 1  *)
(* to the rank of the target, has on every axis size 1 or the size of the *)
(* target; otherwise (a mismatching axis, or a source of higher rank) it  *)
(* raises a broadcast-incompatibility error and returns no view.          *)
C11_BroadcastCompatibility ==
    (Returned("broadcast_to") /\ IsShape(call.shape.v))
    => IF RightAligned(arrays[1].shape, call.shape.v)
       THEN result.err = NoError /\ Len(result.out) = 1
       ELSE result.err \in BroadcastIncompatible /\ result.out = <<>>

C11_Witness ==
    /\ Returned("broadcast_to")
    /\ arrays[1].shape = <<1, 2>>
    /\ call.shape = [kind |-> "seq", v |-> <<2, 3>>]
    /\ result.err = ErrIterBroadcast
    /\ result.out = <<>>

(* The shape and the strides as_strided is asked for: the argument, or   *)
(* those of the source when it is omitted.                                *)
AskedShape == IF call.shape.kind = "none" THEN arrays[1].shape ELSE call.shape.v

AskedStrides ==
    IF call.strides.kind = "none" THEN arrays[1].strides ELSE call.strides.v

(* C12: the array as_strided returns is a new object over the buffer of   *)
(* x, with the shape given (that of x when omitted) and the strides given *)
(* (those of x when omitted), whenever the two have as many entries.      *)
C12_AsStridedHeader ==
    (/\ Returned("as_strided")
     /\ result.err = NoError
     /\ Len(AskedShape) = Len(AskedStrides))
    => /\ Len(result.out) = 1
       /\ result.out[1].id # arrays[1].id
       /\ result.out[1].buf = arrays[1].buf
       /\ result.out[1].shape = AskedShape
       /\ result.out[1].strides = AskedStrides

(* Every offset that shape and strides address lies in the bytes of x. *)
WithinExtent(x, shape, strides) ==
    \A idx \in Indices(shape) :
       /\ Dot(idx, strides) >= 0
       /\ Dot(idx, strides) <= (Prod(x.shape) - 1) * ItemSize

(* The element of x stored at a byte offset from its first element. *)
StoredAt(x, offset) ==
    Val(CHOOSE j \in Indices(x.shape) : Dot(j, x.strides) = offset)

(* C13: when strides are given, with as many entries as the shape, and    *)
(* every offset sum(idx[i] * strides[i]) lies within the bytes of x,      *)
(* as_strided returns a view of that shape, and reading it at any index   *)
(* idx gives the element of x stored at that offset.                      *)
C13_AsStridedReads ==
    (/\ Returned("as_strided")
     /\ writes = 0
     /\ call.strides.kind = "seq"
     /\ Len(call.strides.v) = Len(AskedShape)
     /\ WithinExtent(arrays[1], AskedShape, call.strides.v))
    => /\ result.err = NoError
       /\ Len(result.out) = 1
       /\ result.out[1].shape = AskedShape
       /\ \A idx \in Indices(AskedShape) :
             Read(result.out[1], idx)
                = StoredAt(arrays[1], Dot(idx, call.strides.v))

C13_Witness ==
    /\ Returned("as_strided")
    /\ writes = 0
    /\ arrays[1].shape = <<3, 4>>
    /\ arrays[1].strides = CStrides(<<3, 4>>)
    /\ call.shape = [kind |-> "seq", v |-> <<2, 2>>]
    /\ call.strides = [kind |-> "seq", v |-> <<2 * ItemSize, 0>>]
    /\ result.err = NoError
    /\ Read(result.out[1], <<1, 1>>) = Val(<<0, 2>>)

(* C14, as first stated: whatever shape and strides are asked for,        *)
(* as_strided raises nothing and returns a view.                          *)
C14_AsStridedNeverFails ==
    Returned("as_strided") => result.err = NoError /\ Len(result.out) = 1

(* Some element of the view lies outside the buffer it reads. *)
OutOfBounds(view) == \E idx \in Indices(view.shape) : ~InBuffer(view, idx)

(* C14: as_strided makes no bounds check: whenever the shape and strides  *)
(* asked for have the same number of entries it returns a view, also when *)
(* they reach outside the storage of x; the one error it raises is the    *)
(* mismatch in length of strides and shape.                               *)
C14_AsStridedNoBoundsCheck ==
    Returned("as_strided")
    => /\ Len(AskedShape) = Len(AskedStrides)
             => result.err = NoError /\ Len(result.out) = 1
       /\ result.err \in {NoError, ErrStridesLen}

C14_Witness ==
    /\ Returned("as_strided")
    /\ arrays[1].shape = <<2>>
    /\ call.shape = [kind |-> "seq", v |-> <<2, 2>>]
    /\ call.strides = [kind |-> "seq", v |-> <<2 * ItemSize, -ItemSize>>]
    /\ result.err = NoError
    /\ OutOfBounds(result.out[1])

(* C16: the view as_strided returns is read-only when writeable=False is *)
(* passed; when writeable=True is passed it is writeable exactly when the *)
(* source is; over a read-only source it is never writeable.              *)
C16_AsStridedWriteable ==
    (Returned("as_strided") /\ result.err = NoError)
    => /\ ~call.writeable => ~result.out[1].writeable
       /\ call.writeable => (result.out[1].writeable <=> arrays[1].writeable)
       /\ ~arrays[1].writeable => ~result.out[1].writeable

C16_Witness ==
    /\ Returned("as_strided")
    /\ result.err = NoError
    /\ arrays[1].writeable
    /\ arrays[1].type = "subclass"
    /\ call.subok
    /\ ~call.writeable
    /\ ~result.out[1].writeable

ViewOps == {"as_strided", "sliding_window_view", "broadcast_to", "broadcast_arrays"}

(* C15: after a call of as_strided, sliding_window_view, broadcast_to or  *)
(* broadcast_arrays, and before the caller stores anything, every source  *)
(* array is as it was before the call: the same shape, strides, element   *)
(* type, writeable flag and class, on the same buffer, which holds the    *)
(* same elements; a returned array that is a source object itself is that *)
(* source unchanged: flags and element types are assigned on new objects  *)
(* only.                                                                  *)
C15_SourceUnchanged ==
    (pc = "returned" /\ call.op \in ViewOps /\ writes = 0)
    => /\ Len(arrays) = Len(call.sources)
       /\ \A i \in 1..Len(arrays) :
             /\ arrays[i].shape = call.sources[i].shape
             /\ arrays[i].strides = call.sources[i].strides
             /\ arrays[i].dtype = call.sources[i].dtype
             /\ arrays[i].writeable = call.sources[i].writeable
             /\ arrays[i].type = call.sources[i].type
             /\ arrays[i].buf = call.sources[i].buf
             /\ mem[arrays[i].buf] = call.data[call.sources[i].buf]
             /\ \A j \in 1..Len(result.out) :
                   result.out[j].id = arrays[i].id
                      => result.out[j] = call.sources[i]

(* as_strided forcing a read-only view of a writeable source. *)
C15_Witness ==
    /\ Returned("as_strided")
    /\ result.err = NoError
    /\ arrays[1].writeable
    /\ ~call.writeable
    /\ ~result.out[1].writeable
    /\ call.shape = NoArg
    /\ call.strides = NoArg
    /\ arrays[1].dtype = "record"
    /\ result.out[1].dtype = "record"
    /\ result.out[1].id # arrays[1].id

(* C17: broadcast_arrays given a keyword other than subok raises the      *)
(* unexpected-keyword-argument TypeError and returns nothing.             *)
C17_UnexpectedOption ==
    (Returned("broadcast_arrays") /\ ~KnownKwargs)
    => result.err = ErrKeyword /\ result.out = <<>>

(* Shapes s and t, aligned at the right, have an axis where the sizes     *)
(* differ and neither is 1.                                               *)
Disagree(s, t) ==
    \E i \in 1..Min(Len(s), Len(t)) :
       /\ s[Len(s) + 1 - i] # 1
       /\ t[Len(t) + 1 - i] # 1
       /\ s[Len(s) + 1 - i] # t[Len(t) + 1 - i]

(* C18: broadcast_arrays, called with no keyword other than subok, raises *)
(* the shape-mismatch error and returns no array whenever two of its      *)
(* inputs, at any positions, have shapes that disagree on a right-aligned *)
(* axis where neither size is 1.                                          *)
C18_ShapeMismatch ==
    (/\ Returned("broadcast_arrays")
     /\ KnownKwargs
     /\ \E i, j \in 1..Len(arrays) : Disagree(arrays[i].shape, arrays[j].shape))
    => result.err = ErrShapeMismatch /\ result.out = <<>>

C18_Witness ==
    /\ Returned("broadcast_arrays")
    /\ KnownKwargs
    /\ Len(arrays) = 3
    /\ arrays[1].shape = <<1, 3>>
    /\ arrays[2].shape = <<>>
    /\ arrays[3].shape = <<2, 2>>
    /\ result.err = ErrShapeMismatch
    /\ result.out = <<>>

(* The argument passed for an option: None when it is omitted. *)
Passed(kwargs, key) == IF key \in DOMAIN kwargs THEN kwargs[key] ELSE PyNone

(* C19: after set_printoptions with kwargs, and after apply() on an       *)
(* object PrintOptions made from kwargs, the formatter option is the      *)
(* formatter                                                              *)
(* passed, None when none or None was passed, and every other option      *)
(* whose argument was omitted or None has the value it had before.        *)
C19_FormatterReset ==
    (pcall.op \in {"set_printoptions", "apply"} /\ pcall.err = NoError)
    => /\ _printoptions["formatter"] = Passed(pcall.kwargs, "formatter")
       /\ \A key \in DOMAIN _printoptions \ {"formatter"} :
             Passed(pcall.kwargs, key) = PyNone
                => _printoptions[key] = pcall.before[key]

(* apply() of an object made without a formatter resets the formatter set *)
(* meanwhile, and keeps the precision set meanwhile.                      *)
C19_Witness ==
    /\ pcall.op = "apply"
    /\ "formatter" \notin DOMAIN pcall.kwargs
    /\ Passed(pcall.kwargs, "suppress") = "True"
    /\ pcall.before["formatter"] = "f"
    /\ pcall.before["precision"] = "4"
    /\ managers[pcall.obj].old_options = DefaultPrintOptions
    /\ _printoptions["formatter"] = PyNone
    /\ _printoptions["precision"] = "4"
    /\ _printoptions["suppress"] = "True"

(* The dispatcher's signature matches the implementation's exactly: as   *)
(* many parameters, with the same names and kinds in the same order,      *)
(* optional where the implementation's are, every default being None.     *)
ExactMatch(implementation, dispatcher) ==
    /\ Len(implementation) = Len(dispatcher)
    /\ \A i \in 1..Len(dispatcher) :
          /\ implementation[i].name = dispatcher[i].name
          /\ implementation[i].kind = dispatcher[i].kind
          /\ (implementation[i].default = Empty) <=> (dispatcher[i].default = Empty)
          /\ dispatcher[i].default \in {Empty, PyNone}

(* C20: verify_matching_signatures returns without an error exactly when  *)
(* the two signatures match exactly, and raises RuntimeError for every    *)
(* other pair.                                                            *)
C20_VerifyExact ==
    Returned("verify_matching_signatures")
    => IF ExactMatch(call.implementation, call.dispatcher)
       THEN result.err = NoError
       ELSE result.err \in {ErrSignatures, ErrDefaults}

(* C21: the view sliding_window_view returns (writeable=False; with      *)
(* writeable=True it returns a copy of that view) has as strides those of *)
(* the source multiplied axis by axis by the step, followed by those of   *)
(* the source unchanged.                                                  *)
C21_SlidingStrides ==
    (Returned("sliding_window_view") /\ result.err = NoError /\ ~call.writeable)
    => LET nd == Len(arrays[1].shape)
           st == result.out[1].strides
       IN  /\ Len(st) = 2 * nd
           /\ \A i \in 1..nd :
                 /\ st[i] = arrays[1].strides[i] * StepOf[i]
                 /\ st[nd + i] = arrays[1].strides[i]

C21_Witness ==
    /\ Returned("sliding_window_view")
    /\ result.err = NoError
    /\ ~call.writeable
    /\ arrays[1].shape = <<3, 4>>
    /\ arrays[1].strides = FStrides(<<3, 4>>)
    /\ WindowOf = <<2, 2>>
    /\ call.step = [kind |-> "seq", v |-> <<1, 2>>]
    /\ result.out[1].strides = <<ItemSize, 6 * ItemSize, ItemSize, 3 * ItemSize>>

(* C22: in the array broadcast_to returns, an axis on which the source,  *)
(* padded on the left with axes of size 1, has size 1 and the target a    *)
(* size above 1 has stride 0, and every other axis the source has keeps   *)
(* the stride of the source.                                              *)
C22_BroadcastToStrides ==
    (Returned("broadcast_to") /\ result.err = NoError)
    => LET s == arrays[1].shape
           t == call.shape.v
           pad == Len(t) - Len(s)
           st == result.out[1].strides
       IN  /\ Len(st) = Len(t)
           /\ \A j \in 1..Len(t) :
                 IF (j <= pad \/ s[j - pad] = 1) /\ t[j] > 1
                 THEN st[j] = 0
                 ELSE j > pad => st[j] = arrays[1].strides[j - pad]

(* C23: when broadcast_arrays returns views, not its inputs (some input   *)
(* has not the unified shape), each view is writeable exactly when the    *)
(* input it is a view of is writeable.                                    *)
C23_BroadcastArraysWriteable ==
    (Returned("broadcast_arrays") /\ result.err = NoError /\ ~AllUnified)
    => /\ Len(result.out) = Len(arrays)
       /\ \A i \in 1..Len(result.out) :
             /\ result.out[i].buf = arrays[i].buf
             /\ result.out[i].writeable <=> arrays[i].writeable

C23_Witness ==
    /\ Returned("broadcast_arrays")
    /\ result.err = NoError
    /\ InputShapes = <<<<1, 3>>, <<3, 1>>>>
    /\ arrays[1].writeable
    /\ ~arrays[2].writeable
    /\ result.out[1].shape = <<3, 3>>
    /\ result.out[1].writeable
    /\ ~result.out[2].writeable

(* C24: for any number of arguments, _broadcast_shape, which broadcasts  *)
(* the first 32 and then batches of 31 with a placeholder of the shape so *)
(* far, fails exactly when the pairwise unification folded over all the   *)
(* shapes one by one fails, and returns the shape that fold gives.        *)
C24_BatchingIsFold ==
    Returned("_broadcast_shape")
    => /\ result.err = NoError <=> UnifyAll(call.shapes).ok
       /\ result.err # NoError => result.err = ErrShapeMismatch
       /\ result.err = NoError => result.shape = UnifyAll(call.shapes).shape

(* 65 arguments: the first and the last, in different batches, decide. *)
C24_Witness ==
    /\ Returned("_broadcast_shape")
    /\ Len(call.shapes) = 2 * MaxBroadcastArgs + 1
    /\ call.shapes[1] = <<2, 1>>
    /\ call.shapes[2 * MaxBroadcastArgs + 1] = <<3>>
    /\ result.err = NoError
    /\ result.shape = <<2, 3>>


(* The arguments of the call of sliding_window_view are valid: window and *)
(* step flat sequences of integers of the source's rank, every entry      *)
(* above 0, no window larger than the source.                             *)
SlidingArgsValid ==
    /\ WindowIsSeq
    /\ SameRank(call.shape)
    /\ \A i \in 1..Len(call.shape.v) :
          call.shape.v[i] > 0 /\ call.shape.v[i] <= arrays[1].shape[i]
    /\ StepIsValid

(* The call raised and produced no array, or returned n arrays. *)
RaisedOrReturned(n) ==
    IF result.err # NoError
    THEN result.out = <<>> /\ Len(mem) = Len(arrays)
    ELSE Len(result.out) = n

(* C25: a call of sliding_window_view, broadcast_to or broadcast_arrays   *)
(* either raises and produces no view, or returns the view of exactly the *)
(* arguments given, which are then valid: no invalid argument is quietly  *)
(* turned into a valid one.                                               *)
C25_ErrorsBeforeViews ==
    /\ Returned("sliding_window_view")
       => /\ RaisedOrReturned(1)
          /\ result.err = NoError
                => /\ SlidingArgsValid
                   /\ SubSeq(result.out[1].shape, Len(arrays[1].shape) + 1,
                             Len(result.out[1].shape)) = call.shape.v
    /\ Returned("broadcast_to")
       => /\ RaisedOrReturned(1)
          /\ result.err = NoError
                => /\ IsShape(call.shape.v)
                   /\ RightAligned(arrays[1].shape, call.shape.v)
                   /\ result.out[1].shape = call.shape.v
    /\ Returned("broadcast_arrays")
       => /\ RaisedOrReturned(Len(arrays))
          /\ result.err = NoError
                => /\ KnownKwargs
                   /\ UnifyAll(InputShapes).ok
                   /\ \A i \in 1..Len(result.out) :
                         result.out[i].shape = UnifyAll(InputShapes).shape

(* The same for every call but those of sliding_window_view with a window *)
(* or step that holds a number that is not an integer.                    *)
ErrorsBeforeViewsOfIntegers ==
    (call.shape.kind # "float" /\ call.step.kind # "float")
    => C25_ErrorsBeforeViews
(* C26 as claimed: as_strided called with subok on a source of a subclass *)
(* returns an array of that subclass on which __array_finalize__ was      *)
(* called with the source; called without subok it returns a base-class   *)
(* array on which it called no __array_finalize__.                        *)
C26_SubclassPreserved ==
    (Returned("as_strided") /\ result.err = NoError)
    => /\ (call.subok /\ arrays[1].type # "ndarray")
             => /\ result.out[1].type = arrays[1].type
                /\ result.out[1].hook = arrays[1].id
                /\ result.out[1].id # arrays[1].id
       /\ ~call.subok
             => /\ result.out[1].type = "ndarray"
                /\ result.out[1].hook = 0

(* C26, amended: as_strided called with subok on a source of a subclass   *)
(* returns a new array of that subclass; __array_finalize__ was called on *)
(* it with the source when the subclass defines it, and not called when   *)
(* the subclass does not; called without subok it returns a base-class    *)
(* array on which it called no __array_finalize__.                        *)
C26_SubclassFinalized ==
    (Returned("as_strided") /\ result.err = NoError)
    => /\ (call.subok /\ arrays[1].type # "ndarray")
             => /\ result.out[1].type = arrays[1].type
                /\ result.out[1].id # arrays[1].id
                /\ result.out[1].hook =
                      IF HasArrayFinalize(arrays[1].type) THEN arrays[1].id ELSE 0
       /\ ~call.subok
             => /\ result.out[1].type = "ndarray"
                /\ result.out[1].hook = 0

C26_Witness ==
    /\ Returned("as_strided")
    /\ result.err = NoError
    /\ call.subok
    /\ arrays[1].type = "subclass"
    /\ call.shape = [kind |-> "seq", v |-> <<2, 2>>]
    /\ call.strides = [kind |-> "seq", v |-> <<0, ItemSize>>]
    /\ result.out[1].type = "subclass"
    /\ result.out[1].hook = arrays[1].id
    /\ result.out[1].shape = <<2, 2>>

(* The strides as_strided puts into the interface: those passed, else     *)
(* those of the interface of the source, which has none (C order for the  *)
(* shape put in) when the source is C-contiguous.                         *)
InterfaceLength ==
    IF call.strides.kind # "none" THEN Len(call.strides.v)
    ELSE IF IsCContiguous(call.sources[1]) THEN Len(AskedShape)
    ELSE Len(call.sources[1].strides)

(* C27: every array that as_strided, sliding_window_view, broadcast_to or *)
(* broadcast_arrays returns has as many strides as axes. as_strided, with *)
(* shape and strides both passed, one of them or none, returns exactly    *)
(* when the shape and strides of the interface it builds have the same    *)
(* length; the other three build shape and strides of the same length     *)
(* themselves and never fail on a difference.                             *)
C27_ShapeStridesSameLength ==
    /\ (pc = "returned" /\ call.op \in ViewOps /\ result.err = NoError)
          => \A i \in 1..Len(result.out) :
                Len(result.out[i].shape) = Len(result.out[i].strides)
    /\ (pc = "returned" /\ call.op \in ViewOps \ {"as_strided"})
          => result.err # ErrStridesLen
    /\ Returned("as_strided")
          => /\ result.err = NoError <=> Len(AskedShape) = InterfaceLength
             /\ result.err = NoError
                   => Len(result.out[1].strides) = Len(AskedShape)

C27_Witness ==
    /\ Returned("as_strided")
    /\ result.err = NoError
    /\ arrays[1].shape = <<2>>
    /\ call.shape = [kind |-> "seq", v |-> <<2, 2>>]
    /\ call.strides = NoArg
    /\ result.out[1].shape = <<2, 2>>
    /\ result.out[1].strides = <<2 * ItemSize, ItemSize>>
(* The target of the call written as a tuple of one entry. *)
TargetAsTuple == [kind |-> "seq", v |-> <<call.shape.v[1]>>]

(* C28: broadcast_to with a bare integer n as target gives what it gives  *)
(* with the target (n,): the same array when that call returns, the same  *)
(* error when it raises.                                                  *)
C28_ScalarTarget ==
    (Returned("broadcast_to") /\ call.shape.kind = "scalar")
    => LET tupled == broadcast_to(arrays[1], TargetAsTuple, call.subok)
       IN  /\ result.err = tupled.err
           /\ result.out = tupled.out
           /\ result.err = NoError => result.out[1].shape = <<call.shape.v[1]>>

C28_Witness ==
    /\ Returned("broadcast_to")
    /\ call.shape = [kind |-> "scalar", v |-> <<2>>]
    /\ arrays[1].shape = <<1>>
    /\ result.err = NoError
    /\ result.out[1].shape = <<2>>
    /\ result.out[1].strides = <<0>>
(* The call of sliding_window_view passed the checks of lines 214-239. *)
PassedValidation ==
    /\ Returned("sliding_window_view")
    /\ result.err \notin ValidationErrors \cup {ErrUnsized}

(* C29: when window and step pass the checks of sliding_window_view, the  *)
(* call returns, with every extent at least 1, exactly when no window     *)
(* entry exceeds the size of its axis; the last window of every axis then *)
(* ends inside the source, (extent - 1) * step + (window - 1) <= size - 1, *)
(* and every index of the result addresses an element of the source.      *)
C29_WindowsInsideSource ==
    PassedValidation
    => LET nd == Len(arrays[1].shape)
           size == arrays[1].shape
       IN  /\ result.err = NoError <=> \A i \in 1..nd : WindowOf[i] <= size[i]
           /\ result.err # NoError => result.err = ErrWindow
           /\ result.err = NoError
                 => LET v == result.out[1]
                    IN  /\ \A i \in 1..nd :
                              /\ v.shape[i] >= 1
                              /\ (v.shape[i] - 1) * StepOf[i] + (WindowOf[i] - 1)
                                     <= size[i] - 1
                        /\ \A idx \in Indices(v.shape) :
                              /\ \A i \in 1..nd :
                                    idx[i] * StepOf[i] + idx[nd + i] \in 0..(size[i] - 1)
                              /\ InBuffer(v, idx)

C29_Witness ==
    /\ PassedValidation
    /\ result.err = NoError
    /\ ~call.writeable
    /\ arrays[1].shape = <<3, 4>>
    /\ call.shape = [kind |-> "seq", v |-> <<2, 2>>]
    /\ call.step = [kind |-> "seq", v |-> <<2, 2>>]
    /\ result.out[1].shape = <<1, 2, 2, 2>>
(* C30: when a with block on a PrintOptions object is left, the print     *)
(* options are what they were when the block was entered, whatever was    *)
(* made, set, entered or left in between; and making a PrintOptions with  *)
(* an unknown option name raises ValueError and changes no option.        *)
C30_ExitRestoresEntry ==
    /\ pcall.op = "__exit__" => _printoptions = pcall.entered
    /\ (pcall.op \in {"PrintOptions", "set_printoptions"}
           /\ \E key \in DOMAIN pcall.kwargs : key \notin DOMAIN DefaultPrintOptions)
          => pcall.err = ErrInvalidOption /\ _printoptions = pcall.before

(* What holds instead: the options are put back as they were when the     *)
(* object was made.                                                       *)
ExitRestoresConstruction ==
    /\ pcall.op = "__exit__" => _printoptions = managers[pcall.obj].old_options
    /\ (pcall.op \in {"PrintOptions", "set_printoptions"}
           /\ \E key \in DOMAIN pcall.kwargs : key \notin DOMAIN DefaultPrintOptions)
          => pcall.err = ErrInvalidOption /\ _printoptions = pcall.before
====
